---- MODULE Spec2Model ----
(***************************************************************************)
(* Model of the YouTube download front-end of src/app.py: the Streamlit    *)
(* script main(), download_format, and the helpers of the utils part       *)
(* (validate_youtube_url, get_video_info, format_duration,                 *)
(* format_file_size, get_available_formats, DownloadProgressHook,          *)
(* download_video, create_download_directory).                             *)
(*                                                                         *)
(* Python values.  A text that the code builds or takes apart is the       *)
(* sequence of its characters; a text that is only compared or copied      *)
(* (a codec, an ext, a format id) is a TLA+ string.  A dict key holding    *)
(* such a text reads Missing when it is not set, and None is NoneV.  A     *)
(* dict entry that may be a number is a pair <<tag, value>>:               *)
(* <<"missing", 0>> when the key is not in the dict, <<"none", 0>> for     *)
(* None, <<"int", n>> for an int, <<"float", chars>> for a float given by  *)
(* its repr, <<"str", chars>> for a str.  An optional result (a value or   *)
(* None, a value or an exception) is a sequence of length 1 or 0.          *)
(* Floats are IEEE 754 doubles, modelled bit for bit.                      *)
(***************************************************************************)
EXTENDS Integers, Sequences, FiniteSets, TLC

VARIABLES
    \* ---- format organizer, run on its own ----
    formats,              \* the raw 'formats' list handed to get_available_formats
    organized,            \* the list it returned
    fpc,                  \* "input" before the call, "done" after
    \* ---- progress hook: the bar, the text and the hook of a download ----
    progress_bar,         \* the float last given to progress_bar.progress
    status_text,          \* the text last given to status_text.text
    last_event,           \* the dict d of the last __call__
    hook_raised,          \* whether the last __call__ raised
    prev_progress,        \* progress_bar before the last __call__
    \* ---- session and script ----
    url_input,            \* value of the text field
    video_info,           \* st.session_state.video_info
    download_formats,     \* st.session_state.download_formats
    download_in_progress, \* st.session_state.download_in_progress
    info_url,             \* the url get_video_info was called with for video_info
    buttons,              \* the buttons the current or last run created: absent / enabled / disabled
    messages,             \* st.error texts of the current or last script run
    clicked,              \* what triggered the current or last script run
    fetch_called,         \* whether that run called get_video_info
    pc,                   \* "idle" between runs; "fetching" inside get_video_info;
                          \* "rerun" after st.rerun(); "downloading" inside download_video
    dl_args,              \* the arguments of the download_video call
    fs,                   \* the directory of the last download_format call, while it
                          \* exists, with its entries
    leftover,             \* whether a directory of an earlier call still exists
    download_dir,         \* the directory the last download_format created (NoDir: none)
    dl_engine,            \* how the engine behaved in the last download_video call
    dl_result,            \* what the last download_video call returned
    propagated            \* whether the last download_format let an exception escape

fvars == <<formats, organized, fpc>>
hvars == <<progress_bar, status_text, last_event, hook_raised, prev_progress>>
uvars == <<url_input, video_info, download_formats, download_in_progress, info_url,
           buttons, messages, clicked, fetch_called, pc, dl_args, fs, leftover,
           download_dir,
           dl_engine, dl_result, propagated>>
vars == <<fvars, hvars, uvars>>

Missing == "<missing>"
NoneV == "<None>"

\* dict.get(key, default) for a text entry
Get(d, key, default) == IF d[key] = Missing THEN default ELSE d[key]

\* dict.get(key, default) for a tagged entry
GetTagged(d, key, default) == IF d[key][1] = "missing" THEN default ELSE d[key]

HasKey(e) == e[1] # "missing"

Rev(s) == [i \in 1..Len(s) |-> s[Len(s) + 1 - i]]
Zeros(n) == [i \in 1..n |-> 0]
\* the element of a set of one element; {F(v) : v \in {e}} computes e once
The(S) == CHOOSE v \in S : TRUE
Max(a, b) == IF a >= b THEN a ELSE b

\* s without its leading run of x, and without its trailing run of x
LStrip(s, x) ==
    LET keep == {i \in 1..Len(s) : s[i] # x}
    IN  IF keep = {} THEN <<>>
        ELSE SubSeq(s, CHOOSE i \in keep : \A j \in keep : i <= j, Len(s))
RStrip(s, x) == Rev(LStrip(Rev(s), x))
\* str.strip(ch)
Strip(s, ch) == RStrip(LStrip(s, ch), ch)

Digits == <<"0", "1", "2", "3", "4", "5", "6", "7", "8", "9">>
IsDigit(c) == \E i \in 1..10 : Digits[i] = c
DigitVal(c) == (CHOOSE i \in 1..10 : Digits[i] = c) - 1

\* str(n) for a natural number
RECURSIVE IntStr(_)
IntStr(n) == IF n < 10 THEN <<Digits[n + 1]>> ELSE IntStr(n \div 10) \o <<Digits[(n % 10) + 1]>>

\* str(v), bool(v) and str.isdigit for ASCII text
StrOf(v) ==
    IF v[1] = "int" THEN IntStr(v[2])
    ELSE IF v[1] = "none" THEN <<"N", "o", "n", "e">>
    ELSE v[2]
Truthy(v) ==
    IF v[1] = "int" THEN v[2] # 0
    ELSE IF v[1] = "float" THEN v[2] \notin {<<"0", ".", "0">>, <<"-", "0", ".", "0">>}
    ELSE IF v[1] = "str" THEN v[2] # <<>>
    ELSE FALSE
IsDigitStr(s) == s # <<>> /\ \A i \in 1..Len(s) : IsDigit(s[i])

(***************************************************************************)
(* Python floats (IEEE 754 binary64, round to nearest, ties to even).      *)
(* A big natural number is the sequence of its bits, most significant      *)
(* first, without leading zeros (<<>> is 0).  A float is a record          *)
(* [k, s, m, e]: k is "fin", "inf" or "nan", s the sign bit, and a finite  *)
(* value is (-1)^s * m * 2^e with m a big number of at most 53 bits (53    *)
(* bits for a normal number, fewer with e = -1074 for a subnormal one,     *)
(* <<>> with e = 0 for zero).                                              *)
(***************************************************************************)
\* Arithmetic on big numbers goes through limbs of LimbBits bits, most
\* significant first, so that every product and partial dividend fits an int.
LimbBits == 15
Base == 2 ^ LimbBits
RECURSIVE BinVal(_)
BinVal(b) == IF b = <<>> THEN 0 ELSE 2 * BinVal(SubSeq(b, 1, Len(b) - 1)) + b[Len(b)]
ToLimbs(b) ==
    LET n == (Len(b) + LimbBits - 1) \div LimbBits
        p == Zeros(n * LimbBits - Len(b)) \o b
    IN  [j \in 1..n |-> BinVal(SubSeq(p, LimbBits * (j - 1) + 1, LimbBits * j))]
ToBits(l) ==
    LStrip([i \in 1..(LimbBits * Len(l)) |->
               (l[(i - 1) \div LimbBits + 1]
                    \div (2 ^ (LimbBits - 1 - ((i - 1) % LimbBits)))) % 2], 0)
LFromInt(n) == LStrip(<<n \div (Base * Base), (n \div Base) % Base, n % Base>>, 0)

\* The operators on limbs split their work in halves to keep the recursion shallow.
\* l * k + c for naturals k < 2^16 and c < 2^16: what goes over the Len(l) limbs, the
\* Len(l) limbs themselves, and the whole
RECURSIVE LMulCarry(_, _, _)
LMulCarry(l, k, c) ==
    IF l = <<>> THEN c
    ELSE IF Len(l) = 1 THEN (l[1] * k + c) \div Base
    ELSE The({LMulCarry(SubSeq(l, 1, Len(l) \div 2), k, a) :
                 a \in {LMulCarry(SubSeq(l, Len(l) \div 2 + 1, Len(l)), k, c)}})
RECURSIVE LMulLow(_, _, _)
LMulLow(l, k, c) ==
    IF l = <<>> THEN <<>>
    ELSE IF Len(l) = 1 THEN <<(l[1] * k + c) % Base>>
    ELSE The({LMulLow(SubSeq(l, 1, Len(l) \div 2), k, a) :
                 a \in {LMulCarry(SubSeq(l, Len(l) \div 2 + 1, Len(l)), k, c)}})
             \o LMulLow(SubSeq(l, Len(l) \div 2 + 1, Len(l)), k, c)
LMulAdd(l, k, c) == LFromInt(LMulCarry(l, k, c)) \o LMulLow(l, k, c)

\* quotient and remainder of (r * Base^Len(l) + l) by k, for 0 <= r < k < 2^16
RECURSIVE LDivR(_, _, _)
LDivR(l, k, r) ==
    IF l = <<>> THEN r
    ELSE IF Len(l) = 1 THEN (r * Base + l[1]) % k
    ELSE The({LDivR(SubSeq(l, Len(l) \div 2 + 1, Len(l)), k, a) :
                 a \in {LDivR(SubSeq(l, 1, Len(l) \div 2), k, r)}})
RECURSIVE LDivQ(_, _, _)
LDivQ(l, k, r) ==
    IF l = <<>> THEN <<>>
    ELSE IF Len(l) = 1 THEN <<(r * Base + l[1]) \div k>>
    ELSE LDivQ(SubSeq(l, 1, Len(l) \div 2), k, r)
             \o The({LDivQ(SubSeq(l, Len(l) \div 2 + 1, Len(l)), k, a) :
                        a \in {LDivR(SubSeq(l, 1, Len(l) \div 2), k, r)}})

FZero(s) == [k |-> "fin", s |-> s, m |-> <<>>, e |-> 0]
FInf(s) == [k |-> "inf", s |-> s, m |-> <<>>, e |-> 0]
FNaN == [k |-> "nan", s |-> 0, m |-> <<>>, e |-> 0]
FOne == [k |-> "fin", s |-> 0, m |-> <<1>> \o Zeros(52), e |-> -52]

\* the float nearest to q * 2^e (plus a nonzero rest below the last bit when sticky)
RoundBits(q, e, sticky, s) ==
    LET top == e + Len(q) - 1                 \* exponent of the leading bit
        el == Max(top - 52, -1074)            \* exponent of the last bit kept
        n == el - e                           \* bits to drop
        keep == Len(q) - n
        kept == IF keep >= 1 THEN SubSeq(q, 1, keep) ELSE <<>>
        guard == IF keep >= 0 /\ keep < Len(q) THEN q[keep + 1] ELSE 0
        rest == \/ sticky
                \/ keep < 0
                \/ \E i \in (Max(keep, 0) + 2)..Len(q) : q[i] = 1
        odd == keep >= 1 /\ kept[keep] = 1
        up == guard = 1 /\ (rest \/ odd)
        m0 == IF up THEN ToBits(LMulAdd(ToLimbs(kept), 1, 1)) ELSE kept
        m1 == IF Len(m0) = 54 THEN SubSeq(m0, 1, 53) ELSE m0
        e1 == IF Len(m0) = 54 THEN el + 1 ELSE el
    IN  IF q = <<>> THEN FZero(s)
        ELSE IF top > 1023 THEN FInf(s)
        ELSE IF n <= 0 THEN [k |-> "fin", s |-> s, m |-> q \o Zeros(-n), e |-> el]
        ELSE IF m1 = <<>> THEN FZero(s)
        ELSE IF e1 + Len(m1) - 1 > 1023 THEN FInf(s)
        ELSE [k |-> "fin", s |-> s, m |-> m1, e |-> e1]

\* the float nearest to (num / k) * 2^e, for limbs num and 0 < k < 2^16; sticky
\* tells that num itself was cut off above a nonzero rest
GuardLimbs == 6
FQuot(num, k, e, sticky, s) ==
    LET n == num \o Zeros(GuardLimbs)
    IN  RoundBits(ToBits(LDivQ(n, k, 0)), e - LimbBits * GuardLimbs,
                  sticky \/ LDivR(n, k, 0) # 0, s)

\* Long division of r by b for 0 <= r < b, bit by bit; no step leaves the ints, since
\* 2 * r is compared with b and reduced as r - (b - r).
FracBit(r, b) == IF r >= b - r THEN 1 ELSE 0
FracStep(r, b) == IF r >= b - r THEN r - (b - r) ELSE r + r
\* the rest left after n bits, and the first n bits of r / b after the binary point
\* (the bits are produced half by half to keep the recursion shallow)
RECURSIVE FracRest(_, _, _)
FracRest(r, b, n) ==
    IF n = 0 THEN r
    ELSE IF n = 1 THEN FracStep(r, b)
    ELSE The({FracRest(h, b, n - n \div 2) : h \in {FracRest(r, b, n \div 2)}})
RECURSIVE FracBits(_, _, _)
FracBits(r, b, n) ==
    IF n = 0 THEN <<>>
    ELSE IF n = 1 THEN <<FracBit(r, b)>>
    ELSE FracBits(r, b, n \div 2)
             \o The({FracBits(h, b, n - n \div 2) : h \in {FracRest(r, b, n \div 2)}})

\* int / int (true division of naturals a, b < 2^31, b > 0): a quotient below 1 starts
\* after at most 31 zero bits, so FracLen bits leave 55 or more to round
FracLen == 86
FromRatio(a, b) ==
    RoundBits(LStrip(ToBits(LFromInt(a \div b)) \o FracBits(a % b, b, FracLen), 0),
              -FracLen, FracRest(a % b, b, FracLen) # 0, 0)

\* float * k and float / k for an integer 0 < k < 2^16 (the int converts exactly)
FMul(x, k) ==
    IF x.k # "fin" THEN x
    ELSE RoundBits(ToBits(LMulAdd(ToLimbs(x.m), k, 0)), x.e, FALSE, x.s)
FDiv(x, k) == IF x.k # "fin" THEN x ELSE FQuot(ToLimbs(x.m), k, x.e, FALSE, x.s)

(***************************************************************************)
(* float(str) for a string of ASCII characters (a sequence of one-char     *)
(* strings): <<x>> for the float it returns, <<>> where it raises          *)
(* ValueError.  Surrounding whitespace is dropped; then an optional sign   *)
(* and either inf, infinity or nan in any case, or a decimal number with   *)
(* an optional point and exponent, where single underscores may separate   *)
(* digits.  The result is the float nearest to the decimal value.          *)
(***************************************************************************)
\* the six characters float() drops at both ends; the vertical tab (0x0b) has no
\* escape in a string and stands here as the character itself
VerticalTab == ""
WhiteSpace == {" ", "\t", "\n", VerticalTab, "\f", "\r"}
UpperCase == <<"A", "E", "F", "I", "N", "T", "Y">>
LowerCase == <<"a", "e", "f", "i", "n", "t", "y">>
Lower(c) == IF \E i \in 1..7 : UpperCase[i] = c
            THEN LowerCase[CHOOSE i \in 1..7 : UpperCase[i] = c] ELSE c

StripSet(s, set) ==
    LET keep == {i \in 1..Len(s) : s[i] \notin set}
    IN  IF keep = {} THEN <<>>
        ELSE SubSeq(s, CHOOSE i \in keep : \A j \in keep : i <= j,
                       CHOOSE i \in keep : \A j \in keep : i >= j)

\* digits, with single underscores only between two digits
DigitPart(p) ==
    /\ p # <<>>
    /\ \A i \in 1..Len(p) :
          \/ IsDigit(p[i])
          \/ /\ p[i] = "_"
             /\ 1 < i /\ i < Len(p)
             /\ IsDigit(p[i - 1]) /\ IsDigit(p[i + 1])
DigitsOf(p) == SelectSeq(p, IsDigit)

\* the value of the exponent's digits as float() reads them: leading zeros are
\* skipped, and more than 9 digits or a value above ExpCap (MAX_ABS_EXP of CPython's
\* string to double conversion) count as ExpCap
ExpCap == 1100000000
\* MAX_DIGITS of the same conversion: the most digits a number may have after its
\* leading zeros, and the most after the point; float() raises ValueError beyond
MaxDigits == 1000000000
RECURSIVE DecVal(_, _)
DecVal(p, acc) == IF p = <<>> THEN acc ELSE DecVal(Tail(p), 10 * acc + DigitVal(Head(p)))
SatDec(p) ==
    IF Len(LStrip(p, "0")) > 9 THEN ExpCap
    ELSE IF DecVal(LStrip(p, "0"), 0) > ExpCap THEN ExpCap
    ELSE DecVal(LStrip(p, "0"), 0)

\* the limbs of acc * 10^Len(p) + the value of the digit string p
RECURSIVE LDec(_, _)
LDec(p, acc) ==
    IF p = <<>> THEN acc
    ELSE IF Len(p) = 1 THEN LMulAdd(acc, 10, DigitVal(p[1]))
    ELSE The({LDec(SubSeq(p, Len(p) \div 2 + 1, Len(p)), a) :
                 a \in {LDec(SubSeq(p, 1, Len(p) \div 2), acc)}})
\* l * 10^x
RECURSIVE LPow10(_, _)
LPow10(l, x) ==
    IF x <= 4 THEN LMulAdd(l, 10 ^ x, 0)
    ELSE The({LPow10(a, x - x \div 2) : a \in {LPow10(l, x \div 2)}})
\* quotient of l by 10^x, and whether the division left a rest
RECURSIVE LDivPow10(_, _)
LDivPow10(l, x) ==
    IF x <= 4 THEN [q |-> LStrip(LDivQ(l, 10 ^ x, 0), 0), st |-> LDivR(l, 10 ^ x, 0) # 0]
    ELSE The({The({[q |-> b.q, st |-> a.st \/ b.st] :
                      b \in {LDivPow10(a.q, x - x \div 2)}}) :
                 a \in {LDivPow10(l, x \div 2)}})

\* the float nearest to (-1)^s * sig * 10^x, sig a digit string without leading zeros
FromDecimal(s, sig, x) ==
    IF sig = <<>> THEN FZero(s)
    ELSE IF Len(sig) + x >= 310 THEN FInf(s)
    ELSE IF Len(sig) + x <= -324 THEN FZero(s)
    ELSE IF x >= 0 THEN RoundBits(ToBits(LPow10(LDec(sig, <<>>), x)), 0, FALSE, s)
    ELSE LET z == GuardLimbs + (4 * (-x)) \div LimbBits + 1
             d == LDivPow10(LDec(sig, <<>>) \o Zeros(z), -x)
         IN  RoundBits(ToBits(d.q), -(LimbBits * z), d.st, s)

ParseFloat(str) ==
    LET t == StripSet(str, WhiteSpace)
        signed == t # <<>> /\ t[1] \in {"+", "-"}
        s == IF signed /\ t[1] = "-" THEN 1 ELSE 0
        body == IF signed THEN Tail(t) ELSE t
        low == [i \in 1..Len(body) |-> Lower(body[i])]
        epos == {i \in 1..Len(body) : body[i] \in {"e", "E"}}
        e1 == CHOOSE i \in epos : \A j \in epos : i <= j
        mant == IF epos = {} THEN body ELSE SubSeq(body, 1, e1 - 1)
        ex == IF epos = {} THEN <<>> ELSE SubSeq(body, e1 + 1, Len(body))
        exsigned == ex # <<>> /\ ex[1] \in {"+", "-"}
        exdigits == IF exsigned THEN Tail(ex) ELSE ex
        ppos == {i \in 1..Len(mant) : mant[i] = "."}
        p1 == CHOOSE i \in ppos : \A j \in ppos : i <= j
        ip == IF ppos = {} THEN mant ELSE SubSeq(mant, 1, p1 - 1)
        fp == IF ppos = {} THEN <<>> ELSE SubSeq(mant, p1 + 1, Len(mant))
        valid == /\ ip = <<>> \/ DigitPart(ip)
                 /\ fp = <<>> \/ DigitPart(fp)
                 /\ ip # <<>> \/ fp # <<>>
                 /\ epos = {} \/ DigitPart(exdigits)
        expo == IF epos = {} THEN 0
                ELSE (IF exsigned /\ ex[1] = "-" THEN -1 ELSE 1)
                         * SatDec(DigitsOf(exdigits))
        sig == LStrip(DigitsOf(ip) \o DigitsOf(fp), "0")
    IN  IF low \in {<<"i", "n", "f">>, <<"i", "n", "f", "i", "n", "i", "t", "y">>}
        THEN <<FInf(s)>>
        ELSE IF low = <<"n", "a", "n">> THEN <<FNaN>>
        ELSE IF ~valid THEN <<>>
        ELSE IF Len(sig) > MaxDigits \/ Len(DigitsOf(fp)) > MaxDigits THEN <<>>
        ELSE <<FromDecimal(s, sig, expo - Len(DigitsOf(fp)))>>

\* x < y and x <= y for finite floats
FMagLess(x, y) ==
    IF y.m = <<>> THEN FALSE
    ELSE IF x.m = <<>> THEN TRUE
    ELSE IF x.e + Len(x.m) # y.e + Len(y.m) THEN x.e + Len(x.m) < y.e + Len(y.m)
    ELSE LET n == Max(Len(x.m), Len(y.m))
             xb == x.m \o Zeros(n - Len(x.m))
             yb == y.m \o Zeros(n - Len(y.m))
         IN  \E i \in 1..n : xb[i] < yb[i] /\ \A j \in 1..(i - 1) : xb[j] = yb[j]
FLess(x, y) ==
    IF x.s = 1 /\ y.s = 0 THEN x.m # <<>> \/ y.m # <<>>
    ELSE IF x.s = 0 /\ y.s = 1 THEN FALSE
    ELSE IF x.s = 0 THEN FMagLess(x, y)
    ELSE FMagLess(y, x)
FLe(x, y) == ~FLess(y, x)

\* the text of a number of tenths, as format spec .1f prints it
Fixed1(negative, tenths) ==
    (IF negative THEN <<"-">> ELSE <<>>) \o IntStr(tenths \div 10)
        \o <<".">> \o <<Digits[(tenths % 10) + 1]>>

\* |x| * 10 rounded to an integer, ties to even, for a finite float |x| < 2^20
Tenths(x) ==
    LET b == ToBits(LMulAdd(ToLimbs(x.m), 10, 0))
        keep == Len(b) + x.e
        kept == IF keep >= 1 THEN BinVal(SubSeq(b, 1, keep)) ELSE 0
        guard == IF keep >= 0 /\ keep < Len(b) THEN b[keep + 1] ELSE 0
        rest == \E i \in (Max(keep, 0) + 2)..Len(b) : b[i] = 1
    IN  IF x.m = <<>> THEN 0
        ELSE IF x.e >= 0 THEN BinVal(b \o Zeros(x.e))
        ELSE IF guard = 1 /\ (rest \/ (kept % 2) = 1) THEN kept + 1 ELSE kept

\* f"{x:.1f}"
FormatFixed1(x) == Fixed1(x.s = 1, Tenths(x))

(***************************************************************************)
(* format_file_size for an int 0 <= bytes_size < 2^31.  The divisions by   *)
(* 1024.0 are exact, so the number printed is bytes_size / 1024^u rounded  *)
(* to one decimal, ties to even.                                           *)
(***************************************************************************)
UnitNames == << <<"B">>, <<"K", "B">>, <<"M", "B">>, <<"G", "B">> >>
format_file_size(bytes_size) ==
    LET u == IF bytes_size < 1024 THEN 0
             ELSE IF bytes_size < 1024 * 1024 THEN 1
             ELSE IF bytes_size < 1024 * 1024 * 1024 THEN 2 ELSE 3
        dh == 1024 ^ (IF u = 0 THEN 0 ELSE u - 1)     \* the divisor is dh * 1024
        whole == IF u = 0 THEN bytes_size ELSE (bytes_size \div dh) \div 1024
        r == IF u = 0 THEN 0 ELSE bytes_size - whole * dh * 1024
        rh == r \div 1024
        rl == r % 1024
        t == (10 * rh + (10 * rl) \div 1024) \div dh
        rem == (10 * rh - t * dh) * 1024 + 10 * rl
        half == dh * 512
        tenths == 10 * whole + t
                    + (IF rem > half \/ (rem = half /\ (t % 2) = 1) THEN 1 ELSE 0)
    IN  IF bytes_size = 0 THEN <<"U", "n", "k", "n", "o", "w", "n">>
        ELSE Fixed1(FALSE, tenths) \o <<" ">> \o UnitNames[u + 1]

(***************************************************************************)
(* format_duration, for a tagged value: <<text>>, or <<>> where it raises  *)
(* (None and str have no //; a float other than zero fails format code d). *)
(* Ints are natural numbers.                                               *)
(***************************************************************************)
\* f"{n:02d}"
Pad2(n) == IF n < 10 THEN <<"0">> \o IntStr(n) ELSE IntStr(n)
Unknown == <<"U", "n", "k", "n", "o", "w", "n">>
format_duration(seconds) ==
    IF seconds[1] = "float" THEN (IF Truthy(seconds) THEN <<>> ELSE <<Unknown>>)
    ELSE IF seconds[1] # "int" THEN <<>>
    ELSE LET hours == seconds[2] \div 3600
             minutes == (seconds[2] % 3600) \div 60
             secs == seconds[2] % 60
         IN  IF seconds[2] = 0 THEN <<Unknown>>
             ELSE IF hours > 0
             THEN <<Pad2(hours) \o <<":">> \o Pad2(minutes) \o <<":">> \o Pad2(secs)>>
             ELSE <<Pad2(minutes) \o <<":">> \o Pad2(secs)>>

(***************************************************************************)
(* get_available_formats                                                   *)
(***************************************************************************)
VideoExts == {"mp4", "webm", "mkv"}
AudioExts == {"mp3", "m4a", "webm"}

\* a variant that takes a codec field that is not set for an absent codec
IsVideoFormatSetOnly(f) ==
    /\ f.vcodec \notin {Missing, "none"}
    /\ f.acodec \notin {Missing, "none"}

\* [f for f in formats if f.get('vcodec') != 'none' and f.get('acodec') != 'none']
IsVideoFormat(f) == Get(f, "vcodec", NoneV) # "none" /\ Get(f, "acodec", NoneV) # "none"

\* [f for f in formats if f.get('vcodec') == 'none' and f.get('acodec') != 'none']
IsAudioFormat(f) == Get(f, "vcodec", NoneV) = "none" /\ Get(f, "acodec", NoneV) # "none"

VideoRecord(fmt) ==
    [format_id |-> Get(fmt, "format_id", NoneV),
     ext       |-> Get(fmt, "ext", "mp4"),
     quality   |-> GetTagged(fmt, "height", <<"str", Unknown>>),
     filesize  |-> GetTagged(fmt, "filesize", <<"int", 0>>),
     type      |-> "video",
     note      |-> Get(fmt, "format_note", ""),
     fps       |-> GetTagged(fmt, "fps", <<"int", 0>>)]

AudioRecord(fmt) ==
    [format_id |-> Get(fmt, "format_id", NoneV),
     ext       |-> Get(fmt, "ext", "mp3"),
     quality   |-> GetTagged(fmt, "abr", <<"str", Unknown>>),
     filesize  |-> GetTagged(fmt, "filesize", <<"int", 0>>),
     type      |-> "audio",
     note      |-> Get(fmt, "format_note", ""),
     abr       |-> GetTagged(fmt, "abr", <<"int", 0>>)]

VideoEligible(f) == Get(f, "ext", NoneV) \in VideoExts
AudioEligible(f) == Get(f, "ext", NoneV) \in AudioExts

\* a variant that filters and maps the raw list in one pass
organize_interleaved(raw) ==
    LET Rec(f) == IF IsVideoFormat(f) THEN VideoRecord(f) ELSE AudioRecord(f)
        Keep(f) == \/ IsVideoFormat(f) /\ VideoEligible(f)
                   \/ IsAudioFormat(f) /\ AudioEligible(f)
        kept == SelectSeq(raw, Keep)
    IN  [i \in 1..Len(kept) |-> Rec(kept[i])]

organize_formats(raw) ==
    LET video_formats == SelectSeq(raw, IsVideoFormat)
        audio_formats == SelectSeq(raw, IsAudioFormat)
        videos == SelectSeq(video_formats, VideoEligible)
        audios == SelectSeq(audio_formats, AudioEligible)
    IN  [i \in 1..Len(videos) |-> VideoRecord(videos[i])]
        \o [i \in 1..Len(audios) |-> AudioRecord(audios[i])]

\* video_info always carries 'formats' (get_video_info defaults it to [])
get_available_formats(info) == organize_formats(info.formats)

(***************************************************************************)
(* DownloadProgressHook.  An event d has the entries status (a string),    *)
(* downloaded_bytes, total_bytes and percent_str (tagged; '_percent_str'   *)
(* in the code).  A call has an effect on the bar and the text, which does *)
(* not depend on earlier calls: raised tells that the call raised, bar and *)
(* text are the values set, <<>> where the call left them alone.           *)
(*                                                                         *)
(* progress_bar.progress(v) accepts a float v when 0.0 <= v <= 1.0 or      *)
(* math.isclose(v, 0.0 or 1.0, rel_tol=1e-9, abs_tol=1e-9), and raises     *)
(* otherwise (so for nan, inf, -5.0 and 1.5).                              *)
(***************************************************************************)
\* -1e-9, and the largest float v with v - 1.0 <= 1e-9 * v
LowestAccepted == FromDecimal(1, <<"1">>, -9)
HighestAccepted ==
    FromDecimal(0, <<"1", "0", "0", "0", "0", "0", "0", "0", "0", "0",
                     "9", "9", "9", "9", "9", "9", "9">>, -16)
Accepts(v) == v.k = "fin" /\ FLe(LowestAccepted, v) /\ FLe(v, HighestAccepted)

NoEffect == [raised |-> FALSE, bar |-> <<>>, text |-> <<>>]
Raises == [raised |-> TRUE, bar |-> <<>>, text |-> <<>>]
Shows(v, text) == [raised |-> FALSE, bar |-> <<v>>, text |-> <<text>>]

TextDownloaded(downloaded, total, percent) ==
    <<"D", "o", "w", "n", "l", "o", "a", "d", "e", "d", ":", " ">>
        \o format_file_size(downloaded) \o <<" ", "/", " ">> \o format_file_size(total)
        \o <<" ", "(">> \o FormatFixed1(percent) \o <<"%", ")">>
TextProgress(percent) ==
    <<"P", "r", "o", "g", "r", "e", "s", "s", ":", " ">> \o FormatFixed1(percent) \o <<"%">>
TextDownloading == <<"D", "o", "w", "n", "l", "o", "a", "d", "i", "n", "g", ".", ".", ".">>
TextCompleted ==
    <<"D", "o", "w", "n", "l", "o", "a", "d", " ", "c", "o", "m", "p", "l", "e", "t", "e", "d", "!">>

\* lines 395-396, for the floats percent and value = percent / 100
ShowBytes(d, percent, value) ==
    IF ~Accepts(value) THEN Raises            \* progress() rejects the value
    ELSE Shows(value, TextDownloaded(d.downloaded_bytes[2], d.total_bytes[2], percent))

\* a variant that hands the percentage itself to the bar
HookBytesPercent(d) ==
    IF d.total_bytes[1] # "int" \/ d.downloaded_bytes[1] # "int" THEN Raises
    ELSE IF d.total_bytes[2] = 0 THEN Raises
    ELSE The({ShowBytes(d, percent, percent) :
                 percent \in {FMul(FromRatio(d.downloaded_bytes[2], d.total_bytes[2]), 100)}})

\* lines 393-396: the byte-count branch, for natural numbers of bytes
HookBytes(d) ==
    IF d.total_bytes[1] # "int" \/ d.downloaded_bytes[1] # "int"
    THEN Raises                               \* KeyError / TypeError
    ELSE IF d.total_bytes[2] = 0 THEN Raises  \* ZeroDivisionError
    ELSE The({The({ShowBytes(d, percent, value) : value \in {FDiv(percent, 100)}}) :
                 percent \in {FMul(FromRatio(d.downloaded_bytes[2], d.total_bytes[2]), 100)}})

\* lines 399-404, for the result of float(): both float() and progress() raise inside
\* the try
ShowPercent(parsed, value) ==
    IF parsed = <<>> \/ ~Accepts(value)
    THEN [raised |-> FALSE, bar |-> <<>>, text |-> <<TextDownloading>>]
    ELSE Shows(value, TextProgress(parsed[1]))

\* lines 397-404: the percent-string branch
HookPercentStr(d) ==
    IF d.percent_str[1] # "str" THEN Raises   \* None has no strip
    ELSE The({The({ShowPercent(parsed, value) :
                      value \in {IF parsed = <<>> THEN FNaN ELSE FDiv(parsed[1], 100)}}) :
                 parsed \in {ParseFloat(Strip(d.percent_str[2], "%"))}})

\* DownloadProgressHook.__call__
HookCall(d) ==
    IF d.status = "downloading"
    THEN IF HasKey(d.total_bytes) THEN HookBytes(d)
         ELSE IF HasKey(d.percent_str) THEN HookPercentStr(d)
         ELSE NoEffect
    ELSE IF d.status = "finished" THEN Shows(FOne, TextCompleted)
    ELSE NoEffect

(***************************************************************************)
(* validate_youtube_url                                                    *)
(* A url is the sequence of its tokens; a pattern is a sequence of         *)
(* elements, each a set of alternative tokens, optional or not.  re.match  *)
(* anchors the pattern at the start of the url only.                       *)
(***************************************************************************)
SchemeOpt == [opt |-> TRUE, alts |-> {"http://", "https://"}]
WwwOpt == [opt |-> TRUE, alts |-> {"www."}]
Lit(tok) == [opt |-> FALSE, alts |-> {tok}]

youtube_patterns ==
    << <<SchemeOpt, WwwOpt, [opt |-> FALSE, alts |-> {"youtube", "youtu", "youtube-nocookie"}],
         Lit("."), [opt |-> FALSE, alts |-> {"com", "be"}], Lit("/")>>,
       <<SchemeOpt, WwwOpt, Lit("youtu"), Lit("."), Lit("be"), Lit("/")>>,
       <<SchemeOpt, WwwOpt, Lit("youtube"), Lit("."), Lit("com"), Lit("/"), Lit("watch?v=")>>,
       <<SchemeOpt, WwwOpt, Lit("youtube"), Lit("."), Lit("com"), Lit("/"), Lit("embed"), Lit("/")>>,
       <<SchemeOpt, WwwOpt, Lit("youtube"), Lit("."), Lit("com"), Lit("/"), Lit("v"), Lit("/")>> >>

RECURSIVE MatchAt(_, _, _)
MatchAt(pat, url, i) ==
    IF pat = <<>> THEN TRUE
    ELSE \/ /\ i <= Len(url)
            /\ url[i] \in Head(pat).alts
            /\ MatchAt(Tail(pat), url, i + 1)
         \/ /\ Head(pat).opt
            /\ MatchAt(Tail(pat), url, i)

validate_youtube_url(url) ==
    \E k \in 1..Len(youtube_patterns) : MatchAt(youtube_patterns[k], url, 1)

(***************************************************************************)
(* get_video_info.  The engine's extract_info either raises or returns an  *)
(* info dict.  Of the returned dict the model keeps the entries the script *)
(* computes with: duration, view_count, upload_date and formats; title,    *)
(* thumbnail, uploader and description are only shown.                     *)
(***************************************************************************)
get_video_info(extract) ==
    IF extract.raises THEN <<>>
    ELSE << [duration    |-> GetTagged(extract, "duration", <<"int", 0>>),
             view_count  |-> GetTagged(extract, "view_count", <<"int", 0>>),
             upload_date |-> GetTagged(extract, "upload_date", <<"str", <<>>>>),
             formats     |-> IF extract.has_formats THEN extract.formats ELSE <<>>] >>

(***************************************************************************)
(* main(): what one run of the script renders and does                     *)
(***************************************************************************)
OfType(df, type) == SelectSeq(df, LAMBDA f : f.type = type)

\* fmt['ext'].upper(), for the extensions get_available_formats lets through
ExtUpper(ext) ==
    CASE ext = "mp4" -> <<"M", "P", "4">>
      [] ext = "webm" -> <<"W", "E", "B", "M">>
      [] ext = "mkv" -> <<"M", "K", "V">>
      [] ext = "mp3" -> <<"M", "P", "3">>
      [] ext = "m4a" -> <<"M", "4", "A">>

\* the option text of lines 124-127 and 150-152; filesize is an int or None
OptionText(fmt) ==
    LET q == StrOf(fmt.quality)
        unit == IF fmt.type = "video" THEN <<"p">> ELSE <<" ", "k", "b", "p", "s">>
        quality == IF IsDigitStr(q) THEN q \o unit ELSE q
        size_info == IF Truthy(fmt.filesize)
                     THEN <<" ", "(">> \o format_file_size(fmt.filesize[2]) \o <<")">>
                     ELSE <<>>
        fps_info == IF fmt.type = "video" /\ Truthy(fmt.fps)
                    THEN <<" ">> \o StrOf(fmt.fps) \o <<"f", "p", "s">>
                    ELSE <<>>
    IN  ExtUpper(fmt.ext) \o <<" ", "-", " ">> \o quality \o fps_info \o size_info

\* video_format_map[selected] / audio_format_map[selected]: a later format with the
\* same option text overwrites an earlier one
SelectedFormatId(fmts, i) ==
    LET same == {j \in 1..Len(fmts) : OptionText(fmts[j]) = OptionText(fmts[i])}
        last == CHOOSE j \in same : \A k \in same : k <= j
    IN  fmts[last].format_id

Shown(flag) == IF flag THEN "disabled" ELSE "enabled"

\* lines 45-48: a run that ends before the download options creates this button only
FetchOnly(flag) == [fetch |-> Shown(flag), video |-> "absent", audio |-> "absent"]

\* lines 97-105: an exception here ends the run before the download options
DisplayRaises(vi) ==
    \/ format_duration(vi.duration) = <<>>
    \/ Truthy(vi.view_count) /\ vi.view_count[1] = "str"      \* format spec ',' on a str
    \/ Truthy(vi.upload_date) /\ vi.upload_date[1] # "str"    \* upload_date[:4] on a number

\* the buttons a run creates when it goes through to the end of main()
Render(vi, df, flag) ==
    LET section(type) ==
            IF df = <<>> \/ OfType(df, type) = <<>> THEN "absent" ELSE Shown(flag)
    IN  IF vi = <<>> THEN FetchOnly(flag)
        ELSE IF DisplayRaises(vi[1]) THEN FetchOnly(flag)
        ELSE [fetch |-> Shown(flag), video |-> section("video"), audio |-> section("audio")]

\* lines 50-55
UrlMessages(url) ==
    IF url # <<>> /\ ~validate_youtube_url(url) THEN {"Invalid YouTube URL"} ELSE {}

\* a variant that fetches whatever the url is
main_fetch_gate_unvalidated(url) == IF url = <<>> THEN "skip" ELSE "call"

\* lines 58-61 with the fetch button clicked: skip the block, stop the run with an
\* error, or go on to call get_video_info
main_fetch_gate(url) ==
    IF url = <<>> THEN "skip"
    ELSE IF ~validate_youtube_url(url) THEN "reject"
    ELSE "call"

Kept(vi, df, iu) == [video_info |-> vi, download_formats |-> df, info_url |-> iu]

\* a variant that stores the new video_info and keeps the old format list
main_fetch_store_stale(url, vi, df, iu, got) ==
    IF got # <<>> THEN Kept(got, df, <<url>>) ELSE Kept(vi, df, iu)

\* lines 66-72: what the session holds after get_video_info has returned got
main_fetch_store(url, vi, df, iu, got) ==
    IF got # <<>> THEN Kept(got, get_available_formats(got[1]), <<url>>)
    ELSE Kept(vi, df, iu)

(***************************************************************************)
(* download_video and download_format.  tempfile.mkdtemp gives every call  *)
(* of download_format a directory of its own, under a name the program     *)
(* hands on and never looks at.  The model calls the directory of the call *)
(* in hand TmpDir; fs is a function from that directory, while it exists,  *)
(* to the list os.listdir gives for it, and of the directories of earlier  *)
(* calls the model keeps whether any is left on disk (leftover).           *)
(*                                                                         *)
(* A call ends in one of three ways: "no" (it returns), "exc" (it raises   *)
(* an Exception), "base" (it raises a BaseException that is no Exception,  *)
(* such as KeyboardInterrupt or SystemExit).                               *)
(***************************************************************************)
NoDir == ""
TmpDir == "youtube_download_"
RaiseKinds == {"no", "exc", "base"}

Remove(fsys, dir) == [x \in DOMAIN fsys \ {dir} |-> fsys[x]]

\* what the engine run leaves on disk
EngineWrites(fsys, output_path, engine) ==
    IF engine.dir_gone THEN Remove(fsys, output_path)
    ELSE [fsys EXCEPT ![output_path] = engine.files]

Failure(msg) == [ok |-> FALSE, msg |-> msg, path |-> <<>>, escaped |-> FALSE]
\* no result: the exception leaves download_video
Escapes == [ok |-> FALSE, msg |-> "", path |-> <<>>, escaped |-> TRUE]

\* a variant without the try/except around the engine call
download_video_unguarded(fsys, output_path, engine) ==
    IF engine.raises # "no" \/ output_path \notin DOMAIN fsys THEN Escapes
    ELSE LET files == fsys[output_path]
         IN  IF files # <<>>
             THEN [ok |-> TRUE, msg |-> "", path |-> <<output_path, files[1]>>, escaped |-> FALSE]
             ELSE Failure("Download completed but file not found")

\* download_video, on the file system as the engine left it; engine.raises tells how
\* ydl.download ended
download_video(fsys, output_path, engine) ==
    IF engine.raises = "base" THEN Escapes         \* except Exception does not catch it
    ELSE IF engine.raises = "exc" THEN Failure("Download failed")
    ELSE IF output_path \notin DOMAIN fsys THEN Failure("Download failed")  \* os.listdir raises
    ELSE LET files == fsys[output_path]
         IN  IF files # <<>>
             THEN [ok |-> TRUE, msg |-> "", path |-> <<output_path, files[1]>>, escaped |-> FALSE]
             ELSE Failure("Download completed but file not found")

\* shutil.rmtree inside try/except: pass; rm_fails: rmtree raises (an entry it may not
\* delete) and the directory stays
rmtree_quiet(fsys, dir, rm_fails) ==
    IF dir \in DOMAIN fsys /\ ~rm_fails THEN Remove(fsys, dir) ELSE fsys

\* the finally block of download_format; it runs whether or not an exception escapes
finally_block(fsys, dir, escapes, rm_fails) ==
    [fs |-> rmtree_quiet(fsys, dir, rm_fails), download_in_progress |-> FALSE]

(***************************************************************************)
(* Bounds and input domains                                                *)
(***************************************************************************)
MaxFormats == 2        \* longest raw format list given to the organizer on its own
MaxBytes == 3          \* largest small byte count in a progress event

FormatIds == <<"f1", "f2", "f3", "f4">>
Codecs(real) == {Missing, "none", real}
Exts == {"mp4", "webm", "mkv", "mp3", "m4a", "flv"}
NotSet == <<"missing", 0>>

Raw(id, v, a, e, h, abr, fps, size) ==
    [format_id |-> id, vcodec |-> v, acodec |-> a, ext |-> e, height |-> h,
     abr |-> abr, filesize |-> size, fps |-> fps, format_note |-> Missing]

\* the raw formats the organizer is run on; the format at position i has id FormatIds[i]
RawAt(i) ==
    {Raw(FormatIds[i], v, a, e, NotSet, NotSet, NotSet, NotSet) :
        v \in Codecs("avc1"), a \in Codecs("mp4a"), e \in Exts}

\* what the engine can return for a url; R18 and R18b get the same option text
\* 'MP4 - 360p 30fps (1.0 MB)'
R18 == Raw("18", "avc1", "mp4a", "mp4", <<"int", 360>>, NotSet, <<"int", 30>>, <<"int", 1048576>>)
R18b == Raw("18b", "avc1", "mp4a", "mp4", <<"int", 360>>, NotSet, <<"int", 30>>, <<"int", 1048577>>)
R22 == Raw("22", "avc1", "mp4a", "mp4", <<"str", <<"7", "2", "0", "p">>>>, NotSet,
           <<"none", 0>>, <<"none", 0>>)
R137 == Raw("137", "avc1", "none", "mp4", <<"int", 1080>>, NotSet, <<"int", 30>>, NotSet)
R140 == Raw("140", "none", "mp4a", "m4a", NotSet, <<"int", 128>>, NotSet, <<"int", 1536>>)

Info(dur, views, date, has, l) ==
    [raises |-> FALSE, duration |-> dur, view_count |-> views, upload_date |-> date,
     has_formats |-> has, formats |-> l]
UploadDate == <<"str", <<"2", "0", "2", "0", "0", "1", "3", "1">>>>
Extracts ==
    {[raises |-> TRUE, duration |-> NotSet, view_count |-> NotSet, upload_date |-> NotSet,
      has_formats |-> FALSE, formats |-> <<>>],
     Info(<<"int", 212>>, <<"int", 1000>>, UploadDate, FALSE, <<>>),
     Info(<<"int", 3725>>, NotSet, <<"none", 0>>, TRUE, <<R140, R18>>),
     Info(<<"int", 212>>, <<"int", 1000>>, UploadDate, TRUE, <<R18, R18b, R22, R137>>),
     Info(<<"none", 0>>, <<"none", 0>>, UploadDate, TRUE, <<R18>>)}     \* a live stream

Urls ==
    {<<>>,
     <<"https://", "www.", "youtube", ".", "com", "/", "watch?v=", "A">>,
     <<"https://", "vimeo", ".", "com", "/", "1">>}

\* what os.listdir(output_path) gives after the engine ran; its order is arbitrary
FileLists ==
    {<<>>, <<"a.mp4">>, <<"a.f137.mp4", "a.f140.m4a">>, <<"a.f140.m4a", "a.f137.mp4">>}
\* how ydl.download ends (raises), whether it removed the directory (dir_gone), whether
\* it left an entry rmtree may not delete (locked), and the listing it leaves (files)
Engines ==
    {[raises |-> "no", dir_gone |-> FALSE, locked |-> FALSE, files |-> l] : l \in FileLists}
    \cup {[raises |-> k, dir_gone |-> FALSE, locked |-> FALSE, files |-> l] :
            k \in {"exc", "base"}, l \in {<<>>, <<"a.mp4">>}}
    \cup {[raises |-> "no", dir_gone |-> TRUE, locked |-> FALSE, files |-> <<>>],
          [raises |-> "no", dir_gone |-> FALSE, locked |-> TRUE, files |-> <<"a.mp4">>]}

PercentStrs ==
    {<<" ", "2", "5", ".", "0", "%">>, <<"1", "0", "0", ".", "0", "%">>, <<"+", "5", "%">>,
     <<"N", "/", "A">>, <<"%">>, <<"2", "5", "%", " ">>, <<"1", ".", "2", ".", "3", "%">>,
     <<"1", "e", "1", "%">>, <<"1", "5", "0", "%">>, <<"n", "a", "n", "%">>,
     <<"\t", "5", "_", "0", "%">>, <<VerticalTab, "5", "%">>,
     <<"-", "1", "e", "-", "9", "%">>, <<"-", "5", "%">>}

\* byte counts of a large file, one byte apart: their ratios lie next to 1.0
BigBytes == 2000000000
NearOne == {<<BigBytes, BigBytes>>, <<BigBytes, BigBytes + 1>>, <<BigBytes + 1, BigBytes>>}
\* the pairs (downloaded_bytes, total_bytes) of ints
BytePairs == ((0..MaxBytes) \X (0..MaxBytes)) \cup NearOne
ByteEntries ==
    {<<<<"int", p[1]>>, <<"int", p[2]>>>> : p \in BytePairs}
    \cup {<<<<"int", dl>>, <<tag, 0>>>> : dl \in {0, MaxBytes}, tag \in {"missing", "none"}}
\* the percent string is read only when total_bytes is not in the dict
Events ==
    {[status |-> st, downloaded_bytes |-> b[1], total_bytes |-> b[2], percent_str |-> ps] :
        st \in {"downloading", "finished", "error"},
        b \in ByteEntries,
        ps \in {<<"missing", <<>>>>, <<"none", <<>>>>, <<"str", <<"5", "0", "%">>>>}}
    \cup {[status |-> "downloading", downloaded_bytes |-> <<"int", 0>>,
           total_bytes |-> <<"missing", 0>>, percent_str |-> <<"str", str>>] :
            str \in PercentStrs}

\* HookCall on every event
HookOutcome == [d \in Events |-> HookCall(d)]

\* the events the engine sends in a session: 1 of 3 bytes, a total of None, a percent
\* string, the end of the transfer
Event(st, dl, total, ps) ==
    [status |-> st, downloaded_bytes |-> dl, total_bytes |-> total, percent_str |-> ps]
SessionEvents ==
    {Event("downloading", <<"int", 1>>, <<"int", 3>>, <<"missing", <<>>>>),
     Event("downloading", <<"int", 0>>, <<"none", 0>>, <<"missing", <<>>>>),
     Event("downloading", <<"int", 0>>, <<"missing", 0>>, <<"str", <<"5", "0", "%">>>>),
     Event("finished", <<"int", 0>>, <<"int", 0>>, <<"missing", <<>>>>)}
SessionOutcome == [d \in SessionEvents |-> HookCall(d)]

(***************************************************************************)
(* Initial states                                                          *)
(***************************************************************************)
NoFormatsRun == formats = <<>> /\ organized = <<>> /\ fpc = "input"

NoEvent == [status |-> "none", downloaded_bytes |-> <<"missing", 0>>,
            total_bytes |-> <<"missing", 0>>, percent_str |-> <<"missing", <<>>>>]

\* DownloadProgressHook(st.progress(0), st.empty())
HookInit ==
    /\ progress_bar = FZero(0)
    /\ status_text = <<>>
    /\ last_event = NoEvent
    /\ hook_raised = FALSE
    /\ prev_progress = FZero(0)

NoFiles == [x \in {} |-> <<>>]
NoEngine == [raises |-> "no", dir_gone |-> FALSE, locked |-> FALSE, files |-> <<>>]

\* lines 29-35: the session as the first run of the script leaves it
SessionInit ==
    /\ url_input = <<>>
    /\ video_info = <<>>
    /\ download_formats = <<>>
    /\ download_in_progress = FALSE
    /\ info_url = <<>>
    /\ buttons = Render(<<>>, <<>>, FALSE)
    /\ messages = {}
    /\ clicked = "none"
    /\ fetch_called = FALSE
    /\ pc = "idle"
    /\ dl_args = [url |-> <<>>, format_id |-> "", output_path |-> NoDir]
    /\ fs = NoFiles
    /\ leftover = FALSE
    /\ download_dir = NoDir
    /\ dl_engine = NoEngine
    /\ dl_result = Failure("")
    /\ propagated = FALSE

(***************************************************************************)
(* The format organizer on its own                                         *)
(***************************************************************************)
InitFormats == NoFormatsRun /\ HookInit /\ SessionInit

\* the engine's raw list is given one format at a time
AddFormat ==
    /\ fpc = "input"
    /\ Len(formats) < MaxFormats
    /\ \E f \in RawAt(Len(formats) + 1) : formats' = Append(formats, f)
    /\ UNCHANGED <<organized, fpc, hvars, uvars>>

Organize ==
    /\ fpc = "input"
    /\ organized' = get_available_formats([formats |-> formats])
    /\ fpc' = "done"
    /\ UNCHANGED <<formats, hvars, uvars>>

NextFormats == AddFormat \/ Organize
SpecFormats == InitFormats /\ [][NextFormats]_vars

(***************************************************************************)
(* The progress hook on its own                                            *)
(***************************************************************************)
InitHook == NoFormatsRun /\ HookInit /\ SessionInit

\* the hook is called with the event d and has the effect r
Called(d, r) ==
        /\ progress_bar' = IF r.bar = <<>> THEN progress_bar ELSE r.bar[1]
        /\ status_text' = IF r.text = <<>> THEN status_text ELSE r.text[1]
        /\ hook_raised' = r.raised
        /\ last_event' = d
        /\ prev_progress' = progress_bar

\* lines 182-186: a new bar at 0, an empty text and a hook that was not called
Fresh ==
    /\ progress_bar' = FZero(0)
    /\ status_text' = <<>>
    /\ last_event' = NoEvent
    /\ hook_raised' = FALSE
    /\ prev_progress' = FZero(0)

\* the engine calls the hook with an event; an exception ends the download
HookEvent ==
    /\ ~hook_raised
    /\ \E d \in Events : Called(d, HookOutcome[d])
    /\ UNCHANGED <<fvars, uvars>>

\* the next download starts with a new bar, text and hook
NewHook ==
    /\ last_event # NoEvent
    /\ Fresh
    /\ UNCHANGED <<fvars, uvars>>

NextHook == HookEvent \/ NewHook
SpecHook == InitHook /\ [][NextHook]_vars

(***************************************************************************)
(* The session.  A user interaction starts a run of main(); a run is split *)
(* where it blocks or ends early: ClickFetch runs the script up to the     *)
(* get_video_info call, FetchReturn from its return to st.rerun() or to    *)
(* the end, Rerun is the run st.rerun() starts; ClickDownload runs the     *)
(* script up to the ydl.download call, ProgressEvent is a call of the hook  *)
(* the engine makes inside it, DownloadReturn goes from its end to the end *)
(* of the run.  The user acts on the page between runs.  A run draws the   *)
(* page anew: the bar and the text of an earlier download are gone, and    *)
(* the hook variables are then as for a hook that was not called.          *)
(***************************************************************************)
Init == NoFormatsRun /\ HookInit /\ SessionInit

NoDownloadChange ==
    UNCHANGED <<download_in_progress, dl_args, fs, leftover, download_dir, dl_engine,
                dl_result, propagated>>

\* the text field is edited: the script runs with no button clicked
EditUrl ==
    /\ pc = "idle"
    /\ \E u \in Urls \ {url_input} : url_input' = u
    /\ buttons' = Render(video_info, download_formats, download_in_progress)
    /\ messages' = UrlMessages(url_input')
    /\ clicked' = "none"
    /\ fetch_called' = FALSE
    /\ Fresh
    /\ UNCHANGED <<video_info, download_formats, info_url, pc, fvars>>
    /\ NoDownloadChange

\* "Get Video Info" is clicked: lines 39-64, up to the call of get_video_info
ClickFetch ==
    /\ pc = "idle"
    /\ buttons.fetch = "enabled"
    /\ LET gate == main_fetch_gate(url_input)
       IN  /\ pc' = IF gate = "call" THEN "fetching" ELSE "idle"
           /\ fetch_called' = (gate = "call")
           /\ messages' = UrlMessages(url_input)
                 \cup (IF gate = "reject" THEN {"Please enter a valid YouTube URL"} ELSE {})
           /\ buttons' = IF gate = "skip"
                         THEN Render(video_info, download_formats, download_in_progress)
                         ELSE FetchOnly(download_in_progress)
    /\ clicked' = "fetch"
    /\ Fresh
    /\ UNCHANGED <<url_input, video_info, download_formats, info_url, fvars>>
    /\ NoDownloadChange

\* get_video_info returns: lines 66-72, then st.rerun() ends the run, or after a
\* failure the run goes on through the rest of main()
FetchReturn ==
    /\ pc = "fetching"
    /\ \E extract \in Extracts :
          LET got == get_video_info(extract)
              r == main_fetch_store(url_input, video_info, download_formats, info_url, got)
          IN  /\ video_info' = r.video_info
              /\ download_formats' = r.download_formats
              /\ info_url' = r.info_url
              /\ IF got # <<>>
                 THEN /\ pc' = "rerun"
                      /\ UNCHANGED <<messages, buttons>>
                 ELSE /\ pc' = "idle"
                      /\ messages' = messages \cup {"Error extracting video info",
                                                     "Failed to fetch video information"}
                      /\ buttons' = Render(video_info, download_formats, download_in_progress)
    /\ UNCHANGED <<url_input, clicked, fetch_called, fvars, hvars>>
    /\ NoDownloadChange

\* the run started by st.rerun(): no button is clicked in it
Rerun ==
    /\ pc = "rerun"
    /\ pc' = "idle"
    /\ buttons' = Render(video_info, download_formats, download_in_progress)
    /\ messages' = UrlMessages(url_input)
    /\ clicked' = "rerun"
    /\ fetch_called' = FALSE
    /\ UNCHANGED <<url_input, video_info, download_formats, info_url, fvars, hvars>>
    /\ NoDownloadChange

\* the buttons created when download_format is entered for a click on type: the audio
\* column comes after the video column
UpToClick(type) ==
    LET all == Render(video_info, download_formats, download_in_progress)
    IN  IF type = "video" THEN [all EXCEPT !.audio = "absent"] ELSE all

\* the buttons once download_format has returned to main() with the flag cleared
AfterDownload(type, so_far) ==
    IF type = "video"
    THEN [so_far EXCEPT !.audio = Render(video_info, download_formats, FALSE).audio]
    ELSE so_far

\* "Download Video" / "Download Audio" is clicked with option i selected:
\* download_format(url_input, format_map[selected], type) up to the ydl.download call.
\* mkdtemp_raises: create_download_directory raises (line 176 is outside the try);
\* ui_raise: how the calls of lines 179-186 end; handler_raises: st.error of line 218
\* raises.  The directory of an earlier call, if it still exists, is from now on a
\* leftover.
ClickDownload ==
    /\ pc = "idle"
    /\ \E type \in {"video", "audio"} :
          LET fmts == OfType(download_formats, type)
          IN  /\ buttons[type] = "enabled"
              /\ clicked' = type
              /\ \E i \in 1..Len(fmts), mkdtemp_raises \in BOOLEAN :
                    IF mkdtemp_raises
                    THEN /\ download_in_progress' = TRUE
                         /\ propagated' = TRUE
                         /\ download_dir' = NoDir
                         /\ fs' = NoFiles
                         /\ buttons' = UpToClick(type)
                         /\ messages' = UrlMessages(url_input)
                         /\ pc' = "idle"
                         /\ UNCHANGED dl_args
                    ELSE \E ui_raise \in RaiseKinds :
                       \E handler_raises \in {h \in BOOLEAN : ui_raise = "exc" \/ ~h} :
                       LET made == [x \in {TmpDir} |-> <<>>]
                           caught == ui_raise = "exc"
                           escapes == ui_raise = "base" \/ (caught /\ handler_raises)
                           end == finally_block(made, TmpDir, escapes, FALSE)
                       IN  /\ download_dir' = TmpDir
                           /\ IF ui_raise # "no"
                              THEN /\ fs' = end.fs
                                   /\ download_in_progress' = end.download_in_progress
                                   /\ propagated' = escapes
                                   /\ messages' = UrlMessages(url_input)
                                         \cup (IF caught
                                               THEN {"An error occurred during download"}
                                               ELSE {})
                                   /\ buttons' = IF escapes THEN UpToClick(type)
                                                 ELSE AfterDownload(type, UpToClick(type))
                                   /\ pc' = "idle"
                                   /\ UNCHANGED dl_args
                              ELSE /\ fs' = made
                                   /\ download_in_progress' = TRUE
                                   /\ propagated' = FALSE
                                   /\ messages' = UrlMessages(url_input)
                                   /\ buttons' = UpToClick(type)
                                   /\ pc' = "downloading"
                                   /\ dl_args' = [url |-> url_input,
                                                  format_id |-> SelectedFormatId(fmts, i),
                                                  output_path |-> TmpDir]
    /\ leftover' = (leftover \/ DOMAIN fs # {})
    /\ fetch_called' = FALSE
    /\ Fresh
    /\ UNCHANGED <<url_input, video_info, download_formats, info_url, dl_engine, dl_result,
                   fvars>>

\* inside ydl.download the engine calls the hook (progress_hooks of line 426) with an
\* event; an exception of the hook ends the engine run
ProgressEvent ==
    /\ pc = "downloading"
    /\ ~hook_raised
    /\ \E d \in SessionEvents : Called(d, SessionOutcome[d])
    /\ UNCHANGED <<fvars, uvars>>

\* ydl.download ends, download_video returns or lets a BaseException pass, and
\* download_format runs to its end (lines 189-227); then main() goes on unless an
\* exception escaped.  The engine calls the hook with no try around the call, so an
\* exception of the hook is the Exception the engine run ends with.
\* ui_raise: how the calls of lines 191-216 end; handler_raises: st.error of line 218
\* raises (the handler runs only for an Exception).
DownloadReturn ==
    /\ pc = "downloading"
    /\ \E engine \in {g \in Engines : hook_raised => g.raises = "exc"},
          ui_raise \in RaiseKinds :
       \E handler_raises \in {h \in BOOLEAN : ui_raise = "exc" \/ ~h} :
          LET left == EngineWrites(fs, dl_args.output_path, engine)
              res == download_video(left, dl_args.output_path, engine)
              caught == ~res.escaped /\ ui_raise = "exc"
              escapes == res.escaped \/ ui_raise = "base" \/ (caught /\ handler_raises)
              end == finally_block(left, download_dir, escapes, engine.locked)
          IN  /\ dl_engine' = engine
              /\ dl_result' = res
              /\ fs' = end.fs
              /\ download_in_progress' = end.download_in_progress
              /\ propagated' = escapes
              /\ messages' = messages
                    \cup (IF ~res.escaped /\ ~res.ok THEN {"Download failed"} ELSE {})
                    \cup (IF caught THEN {"An error occurred during download"} ELSE {})
              /\ buttons' = IF escapes THEN buttons ELSE AfterDownload(clicked, buttons)
    /\ pc' = "idle"
    /\ UNCHANGED <<url_input, video_info, download_formats, info_url, clicked,
                   fetch_called, dl_args, leftover, download_dir, fvars, hvars>>

Next ==
    \/ EditUrl \/ ClickFetch \/ FetchReturn \/ Rerun
    \/ ClickDownload \/ ProgressEvent \/ DownloadReturn
Spec == Init /\ [][Next]_vars
(***************************************************************************)
(* Properties                                                              *)
(***************************************************************************)
DownloadFormatDone == pc = "idle" /\ clicked \in {"video", "audio"}

\* C1: when download_format has finished, whatever download_video returned and
\* whatever raised in between, the directory it created does not exist and
\* download_in_progress is False.
C1_CleanupAfterDownload ==
    DownloadFormatDone => (download_dir \notin DOMAIN fs /\ ~download_in_progress)

\* C2: while download_in_progress is True the three buttons are rendered disabled.
C2_ButtonsDisabledWhileDownloading ==
    download_in_progress =>
        /\ buttons.fetch = "disabled"
        /\ buttons.video # "enabled"
        /\ buttons.audio # "enabled"

EmitsAs(id, type) ==
    \E k \in 1..Len(organized) : organized[k].format_id = id /\ organized[k].type = type
Emits(id) == EmitsAs(id, "video") \/ EmitsAs(id, "audio")
RecordsOf(id) == {k \in 1..Len(organized) : organized[k].format_id = id}
FieldSet(c) == c \notin {Missing, "none"}

\* C3 as stated: a codec is present when the field is set and is not 'none'; video iff
\* both codecs present and ext in {mp4, webm, mkv}; audio iff video codec absent,
\* audio codec present and ext in {mp3, m4a, webm}; nothing else is emitted.
C3_PresentMeansSet ==
    fpc = "done" =>
        \A i \in 1..Len(formats) :
            LET f == formats[i]
            IN  /\ EmitsAs(f.format_id, "video")
                     <=> (FieldSet(f.vcodec) /\ FieldSet(f.acodec) /\ f.ext \in {"mp4", "webm", "mkv"})
                /\ EmitsAs(f.format_id, "audio")
                     <=> (~FieldSet(f.vcodec) /\ FieldSet(f.acodec) /\ f.ext \in {"mp3", "m4a", "webm"})

\* C3 amended: a codec is absent only when its field equals 'none' (a field that is not
\* set counts as present); video iff neither codec field is 'none' and ext in
\* {mp4, webm, mkv}; audio iff vcodec is 'none', acodec is not 'none' and ext in
\* {mp3, m4a, webm}; a raw format yields at most one record and no other record exists.
C3_AbsentMeansNone ==
    fpc = "done" =>
        /\ \A i \in 1..Len(formats) :
              LET f == formats[i]
              IN  /\ EmitsAs(f.format_id, "video")
                       <=> (f.vcodec # "none" /\ f.acodec # "none" /\ f.ext \in {"mp4", "webm", "mkv"})
                  /\ EmitsAs(f.format_id, "audio")
                       <=> (f.vcodec = "none" /\ f.acodec # "none" /\ f.ext \in {"mp3", "m4a", "webm"})
                  /\ Cardinality(RecordsOf(f.format_id)) <= 1
        /\ \A k \in 1..Len(organized) :
              \E i \in 1..Len(formats) : formats[i].format_id = organized[k].format_id

\* a format whose vcodec field is not set is emitted as video
C3_Witness ==
    /\ fpc = "done"
    /\ \E i \in 1..Len(formats) :
          /\ formats[i].vcodec = Missing
          /\ formats[i].acodec = "mp4a"
          /\ EmitsAs(formats[i].format_id, "video")

OutPos(id) == CHOOSE k \in 1..Len(organized) : organized[k].format_id = id

\* C4 as stated: any two emitted raw formats keep their input order in the output.
C4_InputOrderKept ==
    fpc = "done" =>
        \A i, j \in 1..Len(formats) :
            (i < j /\ Emits(formats[i].format_id) /\ Emits(formats[j].format_id))
                => OutPos(formats[i].format_id) < OutPos(formats[j].format_id)

\* C4 amended: two emitted raw formats of the same type keep their input order, and
\* every video record comes before every audio record.
C4_OrderKeptWithinType ==
    fpc = "done" =>
        /\ \A i, j \in 1..Len(formats), type \in {"video", "audio"} :
              (i < j /\ EmitsAs(formats[i].format_id, type) /\ EmitsAs(formats[j].format_id, type))
                  => OutPos(formats[i].format_id) < OutPos(formats[j].format_id)
        /\ \A k, l \in 1..Len(organized) :
              (organized[k].type = "video" /\ organized[l].type = "audio") => k < l

\* an audio format that precedes a video format in the input, both emitted
C4_Witness ==
    /\ fpc = "done"
    /\ \E i, j \in 1..Len(formats) :
          /\ i < j
          /\ EmitsAs(formats[i].format_id, "audio")
          /\ EmitsAs(formats[j].format_id, "video")

BytesKnown(d) == d.downloaded_bytes[1] = "int" /\ d.total_bytes[1] = "int"
\* a part of the whole: 0 <= downloaded <= total, total > 0
PartOfTotal(d) ==
    BytesKnown(d) /\ d.total_bytes[2] > 0 /\ d.downloaded_bytes[2] <= d.total_bytes[2]
\* the float nearest to downloaded / total
Ratio == [p \in {q \in BytePairs : q[2] > 0} |-> FromRatio(p[1], p[2])]
RatioOf(d) == Ratio[<<d.downloaded_bytes[2], d.total_bytes[2]>>]
\* the next float above and below a positive finite float
FSucc(x) ==
    LET m0 == ToBits(LMulAdd(ToLimbs(x.m), 1, 1))
    IN  IF x.m = <<>> THEN [k |-> "fin", s |-> 0, m |-> <<1>>, e |-> -1074]
        ELSE IF Len(m0) = 54 THEN [x EXCEPT !.m = SubSeq(m0, 1, 53), !.e = x.e + 1]
        ELSE [x EXCEPT !.m = m0]
FPred(x) ==
    IF x.m = <<1>> \o Zeros(52) /\ x.e > -1074
    THEN [x EXCEPT !.m = [i \in 1..53 |-> 1], !.e = x.e - 1]
    ELSE LET last == CHOOSE i \in 1..Len(x.m) :
                         x.m[i] = 1 /\ \A j \in (i + 1)..Len(x.m) : x.m[j] = 0
             m0 == LStrip([i \in 1..Len(x.m) |->
                              IF i < last THEN x.m[i] ELSE IF i = last THEN 0 ELSE 1], 0)
         IN  IF m0 = <<>> THEN FZero(0) ELSE [x EXCEPT !.m = m0]
\* x is q or one of its two neighbours among the floats
WithinOneUlp(x, q) == IF q.m = <<>> THEN x = q ELSE x \in {FPred(q), q, FSucc(q)}

\* C5 as stated: a 'downloading' event with both byte counts (a part of the whole)
\* leaves the bar at exactly downloaded_bytes/total_bytes, and a 'finished' event
\* leaves it at exactly 100%, whatever came before.
C5_ProgressExact ==
    /\ (last_event.status = "downloading" /\ PartOfTotal(last_event))
          => (~hook_raised /\ progress_bar = RatioOf(last_event))
    /\ last_event.status = "finished" => (~hook_raised /\ progress_bar = FOne)

\* C5 amended: a 'downloading' event whose byte counts are numbers with
\* 0 <= downloaded <= total and total > 0 sets the bar to the float
\* (downloaded/total*100)/100, which is downloaded/total up to one unit in the last
\* place; a 'finished' event leaves the bar at exactly 1.0, whatever came before.
C5_ProgressWithinUlp ==
    /\ (last_event.status = "downloading" /\ PartOfTotal(last_event))
          => /\ ~hook_raised
             /\ progress_bar = FDiv(FMul(RatioOf(last_event), 100), 100)
             /\ WithinOneUlp(progress_bar, RatioOf(last_event))
    /\ last_event.status = "finished" => (~hook_raised /\ progress_bar = FOne)

\* 1 of 3 bytes puts the bar, which stood at 1.0, one float below the float nearest
\* to 1/3: 0.33333333333333326
C5_Witness ==
    /\ last_event.status = "downloading"
    /\ last_event.downloaded_bytes = <<"int", 1>>
    /\ last_event.total_bytes = <<"int", 3>>
    /\ prev_progress = FOne
    /\ progress_bar = FPred(Ratio[<<1, 3>>])
    /\ progress_bar =
          FromDecimal(0, <<"3", "3", "3", "3", "3", "3", "3", "3", "3", "3", "3", "3", "3",
                           "3", "3", "2", "6">>, -17)

DownloadVideoDone == pc = "idle" /\ dl_args.output_path # NoDir
EngineRaised == dl_engine.raises # "no"
ListingRaised == dl_engine.raises = "no" /\ dl_engine.dir_gone
ListingEmpty == dl_engine.raises = "no" /\ ~dl_engine.dir_gone /\ dl_engine.files = <<>>
PathInOutput ==
    /\ dl_result.path[1] = dl_args.output_path
    /\ \E i \in 1..Len(dl_engine.files) : dl_engine.files[i] = dl_result.path[2]

\* C6 as stated: download_video lets no exception escape: the engine or the listing
\* raising gives (False, message), an empty directory after a normal return gives
\* (False, 'Download completed but file not found'), and (True, path) is returned only
\* after a normal return, with path an entry of output_path.
C6_NeverPropagates ==
    DownloadVideoDone =>
        /\ ~dl_result.escaped
        /\ (EngineRaised \/ ListingRaised)
              => (~dl_result.ok /\ dl_result.msg = "Download failed")
        /\ ListingEmpty
              => (~dl_result.ok /\ dl_result.msg = "Download completed but file not found")
        /\ dl_result.ok => (~EngineRaised /\ PathInOutput)

\* C6 amended: an Exception raised by the engine (one raised by the progress hook
\* included) or by the listing gives (False, 'Download failed...'); a BaseException
\* that is no Exception leaves download_video, and nothing else does; an empty
\* directory after a normal return gives (False, 'Download completed but file not
\* found'); (True, path) is returned only after a normal return, with path an entry of
\* output_path.
C6_DownloadVideoResult ==
    DownloadVideoDone =>
        /\ dl_result.escaped <=> dl_engine.raises = "base"
        /\ (dl_engine.raises = "exc" \/ ListingRaised \/ hook_raised)
              => (~dl_result.escaped /\ ~dl_result.ok /\ dl_result.msg = "Download failed")
        /\ ListingEmpty
              => (~dl_result.ok /\ dl_result.msg = "Download completed but file not found")
        /\ dl_result.ok => (~EngineRaised /\ PathInOutput)

\* the engine ended with a BaseException after the hook had shown progress: it left
\* download_video and download_format, whose finally block had cleared the flag
C6_Witness ==
    /\ DownloadVideoDone
    /\ dl_engine.raises = "base"
    /\ last_event.status = "downloading"
    /\ dl_result.escaped
    /\ propagated
    /\ ~download_in_progress

RejectedClick == pc = "idle" /\ clicked' = "fetch" /\ ~validate_youtube_url(url_input')
NothingFetched ==
    /\ ~fetch_called'
    /\ pc' = "idle"
    /\ video_info' = video_info
    /\ download_formats' = download_formats

\* C7 as stated: a click on 'Get Video Info' with a url validate_youtube_url rejects
\* shows an error, calls no get_video_info and leaves video_info and download_formats
\* as they were.
C7_InvalidUrlError ==
    [][RejectedClick
          => (NothingFetched /\ "Please enter a valid YouTube URL" \in messages')]_vars

\* C7 amended: such a click calls no get_video_info and leaves video_info and
\* download_formats as they were; the error is shown when the field is not empty, and
\* no error is shown when it is empty.
C7_InvalidUrlNoFetch ==
    [][RejectedClick
          => /\ NothingFetched
             /\ url_input' # <<>> => "Please enter a valid YouTube URL" \in messages'
             /\ url_input' = <<>> => messages' = {}]_vars

\* the click with the field empty, after an earlier fetch had succeeded: nothing is
\* fetched and no error is shown
C7_Witness ==
    /\ clicked = "fetch"
    /\ pc = "idle"
    /\ ~fetch_called
    /\ url_input = <<>>
    /\ ~validate_youtube_url(url_input)
    /\ video_info # <<>>
    /\ download_formats # <<>>
    /\ messages = {}

\* C8: a 'downloading' event never raises and has one of three outcomes: the byte
\* ratio when both counts are known; the parsed percent string when the total is
\* missing or None; 'Downloading...' with the bar unchanged when that string does not
\* parse (into a number the bar takes).
C8_DownloadingNeverRaises ==
    last_event.status = "downloading" =>
        LET d == last_event
            parsed == ParseFloat(Strip(d.percent_str[2], "%"))
            usable == parsed # <<>> /\ Accepts(FDiv(parsed[1], 100))
        IN  /\ ~hook_raised
            /\ PartOfTotal(d) => WithinOneUlp(progress_bar, RatioOf(d))
            /\ (d.total_bytes[1] # "int" /\ d.percent_str[1] = "str" /\ usable)
                  => progress_bar = FDiv(parsed[1], 100)
            /\ (d.total_bytes[1] # "int" /\ d.percent_str[1] = "str" /\ ~usable)
                  => (status_text = TextDownloading /\ progress_bar = prev_progress)

FetchFailed == pc = "fetching" /\ pc' = "idle"
DownloadStep == clicked' \in {"video", "audio"}

\* C9: whenever video_info is not None, download_formats is
\* get_available_formats(video_info); a failed fetch and a download change neither.
C9_FormatsMatchInfo ==
    /\ [](video_info # <<>> => download_formats = get_available_formats(video_info[1]))
    /\ [][(FetchFailed \/ DownloadStep)
            => (video_info' = video_info /\ download_formats' = download_formats)]_vars

\* a fetch that failed after an earlier one had succeeded
C9_Witness ==
    /\ clicked = "fetch"
    /\ pc = "idle"
    /\ fetch_called
    /\ "Failed to fetch video information" \in messages
    /\ video_info # <<>>
    /\ download_formats # <<>>

\* C10: the url handed to download_video is the url video_info was fetched from, and
\* validate_youtube_url accepts it.
C10_DownloadUrlIsFetchedUrl ==
    pc = "downloading" =>
        /\ info_url = <<dl_args.url>>
        /\ validate_youtube_url(dl_args.url)

====
